---- MODULE Spec2Model ----
(***************************************************************************)
(* Model of nyt-best-sellers.py: get_main_date resolves the reference      *)
(* date, a multiprocessing Pool maps scrape_best_seller over the week      *)
(* offsets, and the main block prints the collected results.               *)
(***************************************************************************)
EXTENDS Integers, Sequences, FiniteSets, TLC

VARIABLES
    pc,             \* position of the main block (lines 94-104)
    num_processes,  \* line 95: cpu_count()
    current_date,   \* line 96: result of get_main_date(), a <<y, m, d>> or None
    landing,        \* the landing-page requests made so far (line 20)
    pool,           \* lifecycle of the Pool of line 99
    chunksize,      \* chunk size pool.map computes for the call of line 101
    taskqueue,      \* chunks submitted by pool.map and not yet taken by a worker
    running,        \* chunks a worker is executing
    chunkPos,       \* per chunk: index of the item the worker is at
    chunkAcc,       \* per chunk: the values returned so far by its items
    number_left,    \* MapResult._number_left
    success,        \* MapResult._success
    value,          \* MapResult._value
    results,        \* line 101: what pool.map returned
    raised,         \* the exception propagating out of the main block
    printed,        \* line 103: what print(results) wrote
    taskState,      \* per week offset: progress of scrape_best_seller(week)
    fetchLog,       \* per week offset: the request made and the response received
    failLog,        \* the failed chunks' exceptions, in order of completion
    fnIn,           \* argument of a single function call (function-level specs)
    fnOut           \* its outcome

vars == <<pc, num_processes, current_date, landing, pool, chunksize, taskqueue,
          running, chunkPos, chunkAcc, number_left, success, value, results,
          raised, printed, taskState, fetchLog, failLog, fnIn, fnOut>>

pipelineVars == <<pc, num_processes, current_date, landing, pool, chunksize,
                  taskqueue, running, chunkPos, chunkAcc, number_left, success,
                  value, results, raised, printed, taskState, fetchLog, failLog>>

(***************************************************************************)
(* Bounds of the model.                                                    *)
(***************************************************************************)
NumWeeks == 5        \* stands for the 105 of range(105), line 100
MaxPool == 3         \* largest cpu_count() considered
MaxOffset == 5       \* largest week offset in the locator specification
MaxBlocks == 4       \* category blocks plus item blocks of a document

(***************************************************************************)
(* Calendar arithmetic of datetime - timedelta(days=...), line 54.         *)
(* A date is <<year, month, day>>; the subtraction goes through the        *)
(* proleptic Gregorian ordinal, as datetime does.                          *)
(***************************************************************************)
DAYS_IN_MONTH == <<31, 28, 31, 30, 31, 30, 31, 31, 30, 31, 30, 31>>

DAYS_BEFORE_MONTH == <<0, 31, 59, 90, 120, 151, 181, 212, 243, 273, 304, 334>>

is_leap(year) ==
    year % 4 = 0 /\ (year % 100 # 0 \/ year % 400 = 0)

days_before_year(year) ==
    LET y == year - 1
    IN  y * 365 + (y \div 4) - (y \div 100) + (y \div 400)

days_in_month(year, month) ==
    IF month = 2 /\ is_leap(year) THEN 29 ELSE DAYS_IN_MONTH[month]

days_before_month(year, month) ==
    DAYS_BEFORE_MONTH[month] + (IF month > 2 /\ is_leap(year) THEN 1 ELSE 0)

ymd2ord(date) ==
    days_before_year(date[1]) + days_before_month(date[1], date[2]) + date[3]

DI4Y == 4 * 365 + 1
DI100Y == 25 * DI4Y - 1
DI400Y == 4 * DI100Y + 1

ord2ymd(ordinal) ==
    LET n0 == ordinal - 1
        n400 == n0 \div DI400Y
        r400 == n0 % DI400Y
        n100 == r400 \div DI100Y
        r100 == r400 % DI100Y
        n4 == r100 \div DI4Y
        r4 == r100 % DI4Y
        n1 == r4 \div 365
        n == r4 % 365
        year == n400 * 400 + 1 + n100 * 100 + n4 * 4 + n1
        leapyear == n1 = 3 /\ (n4 # 24 \/ n100 = 3)
        month0 == (n + 50) \div 32
        preceding0 == DAYS_BEFORE_MONTH[month0]
                        + (IF month0 > 2 /\ leapyear THEN 1 ELSE 0)
        month == IF preceding0 > n THEN month0 - 1 ELSE month0
        preceding == IF preceding0 > n
                     THEN preceding0 - (DAYS_IN_MONTH[month]
                            + (IF month = 2 /\ leapyear THEN 1 ELSE 0))
                     ELSE preceding0
    IN  IF n1 = 4 \/ n100 = 4
        THEN <<year - 1, 12, 31>>
        ELSE <<year, month, n - preceding + 1>>

\* date - timedelta(days=days)
date_minus_days(date, days) == ord2ymd(ymd2ord(date) - days)

(***************************************************************************)
(* strftime("%Y/%m/%d") and the f-string of line 57.  A string is a        *)
(* sequence of one-character strings; the fixed prefix is one token.       *)
(***************************************************************************)
DigitChars == <<"0", "1", "2", "3", "4", "5", "6", "7", "8", "9">>

Digit(n) == DigitChars[n + 1]

Pad2(n) == <<Digit((n \div 10) % 10), Digit(n % 10)>>

Pad4(n) == <<Digit((n \div 1000) % 10), Digit((n \div 100) % 10),
             Digit((n \div 10) % 10), Digit(n % 10)>>

strftime(date) == Pad4(date[1]) \o <<"/">> \o Pad2(date[2]) \o <<"/">> \o Pad2(date[3])

BaseUrl == "https://www.nytimes.com/books/best-sellers/"

\* a variant that forgets the factor 7 of line 54
build_locator_days(date, week) ==
    <<BaseUrl>> \o strftime(date_minus_days(date, week)) \o <<"/">>

\* lines 54-57: the url scrape_best_seller requests
build_locator(date, week) ==
    LET weeks_back == date_minus_days(date, 7 * week)
        formatted_date == strftime(weeks_back)
    IN  <<BaseUrl>> \o formatted_date \o <<"/">>

(***************************************************************************)
(* Responses and documents.  A response is [status_code, text, content];   *)
(* content is the element tree BeautifulSoup builds from it, reduced to    *)
(* the elements the program looks up.                                      *)
(*   snapshot page: [scoped |-> sequence of containers]  (div itemscope),  *)
(*     container = sequence of category blocks        (div.css-v2kl5d),    *)
(*     category  = [h2 |-> Element, books |-> sequence of item blocks],    *)
(*     item      = [h3 |-> Element, p |-> Element, img |-> Element]        *)
(*   landing page:  [time |-> Element]                                     *)
(* An Element is [present, text]; for img, text is the src attribute.      *)
(***************************************************************************)
El(text) == [present |-> TRUE, text |-> text]

Missing == [present |-> FALSE, text |-> <<>>]

IsSpace(c) == c = " "

RECURSIVE lstrip(_)
lstrip(s) == IF s # <<>> /\ IsSpace(Head(s)) THEN lstrip(Tail(s)) ELSE s

RECURSIVE rstrip(_)
rstrip(s) ==
    IF s # <<>> /\ IsSpace(s[Len(s)]) THEN rstrip(SubSeq(s, 1, Len(s) - 1)) ELSE s

\* str.strip()
strip(s) == rstrip(lstrip(s))

(***************************************************************************)
(* Outcome of a call: a returned value or a raised exception.              *)
(***************************************************************************)
Return(v) == [ok |-> TRUE, ret |-> v, exc |-> <<>>]

Raise(type, args) == [ok |-> FALSE, ret |-> <<>>, exc |-> <<type>> \o args]

\* lines 29 and 91: Exception(f"Error response: {status_code}, {text}")
ErrorResponse(response) ==
    Raise("Exception", <<response.status_code, response.text>>)

(***************************************************************************)
(* get_main_date, lines 9-29.  The text of the time element is             *)
(* <<month name, day, year>>; strptime('%B %d, %Y') accepts it when the    *)
(* month name is a full month name and the day exists in that month.       *)
(***************************************************************************)
MonthNames == <<"January", "February", "March", "April", "May", "June", "July",
                "August", "September", "October", "November", "December">>

strptime(text) ==
    IF /\ \E m \in 1..12 : MonthNames[m] = text[1]
       /\ text[3] \in 1..9999
       /\ text[2] >= 1
       /\ text[2] <= days_in_month(text[3], CHOOSE m \in 1..12 : MonthNames[m] = text[1])
    THEN Return(<<text[3], CHOOSE m \in 1..12 : MonthNames[m] = text[1], text[2]>>)
    ELSE Raise("ValueError", <<>>)

\* a variant that answers a fixed date instead of raising
get_main_date_lenient(response) ==
    IF response.status_code = 200 /\ response.content.time.present
       /\ strptime(response.content.time.text).ok
    THEN strptime(response.content.time.text)
    ELSE Return(<<2024, 3, 1>>)

get_main_date(response) ==
    IF response.status_code = 200
    THEN LET soup == response.content
         IN  IF ~soup.time.present
             THEN Raise("AttributeError", <<>>)
             ELSE strptime(soup.time.text)
    ELSE ErrorResponse(response)

(***************************************************************************)
(* scrape_best_seller, lines 32-91.                                        *)
(***************************************************************************)
\* lines 72-81: one item block; position comes from enumerate(..., start=1)
book_data(position, book_element) ==
    IF ~book_element.h3.present THEN Raise("AttributeError", <<>>)
    ELSE IF ~book_element.p.present THEN Raise("AttributeError", <<>>)
    ELSE IF ~book_element.img.present THEN Raise("TypeError", <<>>)
    ELSE Return([position |-> position,
                 title |-> strip(book_element.h3.text),
                 description |-> strip(book_element.p.text),
                 image_url |-> book_element.img.text])

\* lines 71-83: the loop over the item blocks of one category
RECURSIVE books_loop(_, _, _)
books_loop(book_elements, position, books_data) ==
    IF position > Len(book_elements)
    THEN Return(books_data)
    ELSE LET data == book_data(position, book_elements[position])
         IN  IF data.ok
             THEN books_loop(book_elements, position + 1, Append(books_data, data.ret))
             ELSE data

\* a variant that numbers the items from 0
books_from_zero(book_elements) ==
    LET r == books_loop(book_elements, 1, <<>>)
    IN  IF r.ok
        THEN Return([i \in 1..Len(r.ret) |-> [r.ret[i] EXCEPT !.position = i - 1]])
        ELSE r

\* lines 66, 69-83
books_of(book_elements) == books_loop(book_elements, 1, <<>>)

\* lines 65-88: the loop over the category blocks
RECURSIVE category_loop(_, _, _)
category_loop(category_elements, i, data) ==
    IF i > Len(category_elements)
    THEN Return(data)
    ELSE LET category == category_elements[i]
         IN  IF ~category.h2.present
             THEN Raise("AttributeError", <<>>)
             ELSE LET books == books_of(category.books)
                  IN  IF books.ok
                      THEN category_loop(category_elements, i + 1,
                               Append(data, [category |-> category.h2.text,
                                             books |-> books.ret]))
                      ELSE books

\* a variant that leaves out a category block it cannot read
RECURSIVE category_loop_skipping(_, _, _)
category_loop_skipping(category_elements, i, data) ==
    IF i > Len(category_elements)
    THEN Return(data)
    ELSE LET category == category_elements[i]
             books == books_of(category.books)
         IN  IF category.h2.present /\ books.ok
             THEN category_loop_skipping(category_elements, i + 1,
                      Append(data, [category |-> category.h2.text,
                                    books |-> books.ret]))
             ELSE category_loop_skipping(category_elements, i + 1, data)

parse_skipping(week, soup) ==
    IF soup.scoped = <<>>
    THEN Raise("IndexError", <<>>)
    ELSE LET r == category_loop_skipping(soup.scoped[1], 1, <<>>)
         IN  Return([week |-> week, data |-> r.ret])

\* lines 49-52 and 61-90: the success branch
parse(week, soup) ==
    IF soup.scoped = <<>>
    THEN Raise("IndexError", <<>>)
    ELSE LET div_elements == soup.scoped[1]
             r == category_loop(div_elements, 1, <<>>)
         IN  IF r.ok THEN Return([week |-> week, data |-> r.ret]) ELSE r

\* a variant that does not look at the status code
scrape_unchecked(week, response) == parse(week, response.content)

\* lines 58-91, given the response to the request of line 58
scrape_best_seller(week, response) ==
    IF response.status_code = 200
    THEN parse(week, response.content)
    ELSE ErrorResponse(response)

(***************************************************************************)
(* Inputs of the function-level specifications.                            *)
(***************************************************************************)
BookA == [h3 |-> El(<<"A">>), p |-> El(<<"x">>), img |-> El(<<"a.jpg">>)]

BookB == [h3 |-> El(<<" ", "B", " ">>), p |-> El(<<"y", " ">>), img |-> El(<<"b.jpg">>)]

NoTitle == [BookA EXCEPT !.h3 = Missing]

NoDescription == [BookA EXCEPT !.p = Missing]

NoImage == [BookB EXCEPT !.img = Missing]

Books == {BookA, BookB, NoTitle, NoDescription, NoImage}

Headings == {El(<<"F">>), El(<<" ", "N">>), Missing}

\* a category block with its item blocks: size blocks in all
CategoriesOfSize(size) ==
    {[h2 |-> h, books |-> b] : h \in Headings, b \in [1..(size - 1) -> Books]}

\* the containers made of exactly size blocks
RECURSIVE ContainersOfSize(_)
ContainersOfSize(size) ==
    IF size = 0
    THEN {<<>>}
    ELSE UNION {{<<c>> \o rest : c \in CategoriesOfSize(w),
                                 rest \in ContainersOfSize(size - w)} : w \in 1..size}

Containers == UNION {ContainersOfSize(size) : size \in 0..MaxBlocks}

Soups ==
    {[scoped |-> <<>>]}
        \cup {[scoped |-> <<c>>] : c \in Containers}
        \cup {[scoped |-> <<c, <<>>>>] : c \in Containers}

Statuses == {200, 204, 404}

BodyOf(status) ==
    CASE status = 200 -> "html"
      [] status = 204 -> ""
      [] status = 404 -> "not found"
      [] OTHER -> "unavailable"

SnapshotResponses ==
    {[status_code |-> st, text |-> BodyOf(st), content |-> soup] :
        st \in Statuses, soup \in Soups}

RefYears == {2000, 2001, 2024, 2100}

RefDates ==
    {<<y, m, d>> : y \in RefYears, m \in 1..12, d \in 1..31} \cap
    {date \in (RefYears \X (1..12) \X (1..31)) : date[3] <= days_in_month(date[1], date[2])}

(***************************************************************************)
(* State of the pipeline before the main block runs.                       *)
(***************************************************************************)
PipelineOff ==
    /\ pc = "off"
    /\ num_processes = 1
    /\ current_date = <<>>
    /\ landing = <<>>
    /\ pool = "none"
    /\ chunksize = 0
    /\ taskqueue = <<>>
    /\ running = {}
    /\ chunkPos = <<>>
    /\ chunkAcc = <<>>
    /\ number_left = 0
    /\ success = TRUE
    /\ value = <<>>
    /\ results = <<>>
    /\ raised = <<>>
    /\ printed = <<>>
    /\ taskState = <<>>
    /\ fetchLog = <<>>
    /\ failLog = <<>>

(***************************************************************************)
(* SpecLocator: one evaluation of lines 54-57 on a reference date and a    *)
(* week offset.                                                            *)
(***************************************************************************)
LocatorInit ==
    /\ PipelineOff
    /\ fnIn \in {[date |-> date, week |-> week] : date \in RefDates, week \in 0..MaxOffset}
    /\ fnOut = <<>>

BuildLocator ==
    /\ fnOut = <<>>
    /\ fnOut' = <<build_locator(fnIn.date, fnIn.week)>>
    /\ UNCHANGED <<fnIn, pipelineVars>>

LocatorNext == BuildLocator

SpecLocator == LocatorInit /\ [][LocatorNext]_vars

(***************************************************************************)
(* SpecExtract: one call of scrape_best_seller on a response.              *)
(***************************************************************************)
ExtractInit ==
    /\ PipelineOff
    /\ fnIn \in {[week |-> week, response |-> response] :
                    week \in 0..1, response \in SnapshotResponses}
    /\ fnOut = <<>>

Scrape ==
    /\ fnOut = <<>>
    /\ fnOut' = <<scrape_best_seller(fnIn.week, fnIn.response)>>
    /\ UNCHANGED <<fnIn, pipelineVars>>

ExtractNext == Scrape

SpecExtract == ExtractInit /\ [][ExtractNext]_vars

(***************************************************************************)
(* The pipeline: the main block, lines 94-104, and the Pool it drives.     *)
(***************************************************************************)
\* line 100: list(range(105)), with NumWeeks standing for 105
weeks == [i \in 1..NumWeeks |-> i - 1]

\* what the landing page may answer to the request of line 20
LandingResponses ==
    {[status_code |-> 200, text |-> "html", content |-> [time |-> t]] :
        t \in {El(<<"March", 1, 2024>>), El(<<"Jan", 3, 2024>>),
               El(<<"February", 30, 2023>>), Missing}}
    \cup {[status_code |-> 503, text |-> BodyOf(503), content |-> [time |-> Missing]]}

\* a snapshot page whose single item carries the date of its url
GoodPage(url) ==
    [scoped |-> << << [h2 |-> El(<<"F">>),
                       books |-> <<[h3 |-> El(SubSeq(url, 2, Len(url) - 1)),
                                    p |-> El(<<"x">>),
                                    img |-> El(<<"a.jpg">>)]>>] >> >>]

BrokenPage == [scoped |-> << << [h2 |-> Missing, books |-> <<>>] >> >>]

\* what the site may answer to the request of line 58 for url
PagesFor(url) ==
    {[status_code |-> 200, text |-> BodyOf(200), content |-> GoodPage(url)],
     [status_code |-> 200, text |-> BodyOf(200), content |-> BrokenPage],
     [status_code |-> 404, text |-> BodyOf(404), content |-> [scoped |-> <<>>]]}

(***************************************************************************)
(* Pool.map: _map_async cuts the iterable into chunks of chunksize items,  *)
(* each chunk is one task of the pool, run by mapstar; MapResult collects  *)
(* the chunks' results.                                                    *)
(***************************************************************************)
\* chunksize, extra = divmod(len(iterable), len(pool) * 4); if extra: chunksize += 1
ChunkSize(length, processes) ==
    (length \div (processes * 4)) + (IF length % (processes * 4) # 0 THEN 1 ELSE 0)

NumChunks(length, size) == (length + size - 1) \div size

\* the week offsets of chunk i (numbered from 0)
ChunkWeeks(i, size) ==
    SubSeq(weeks, i * size + 1, IF (i + 1) * size < NumWeeks THEN (i + 1) * size ELSE NumWeeks)

\* an empty slot of MapResult._value ([None] * length)
NoneSlot == [week |-> -1, data |-> <<>>]

FirstEmpty(v) == CHOOSE k \in 1..Len(v) : v[k] = NoneSlot /\ \A j \in 1..(k - 1) : v[j] # NoneSlot

\* a variant that fills the slots in the order the chunks complete
place_by_arrival(v, i, size, result) ==
    [k \in 1..Len(v) |->
        IF k >= FirstEmpty(v) /\ k < FirstEmpty(v) + Len(result)
        THEN result[k - FirstEmpty(v) + 1]
        ELSE v[k]]

\* self._value[i*self._chunksize:(i+1)*self._chunksize] = result
place_chunk(v, i, size, result) ==
    [k \in 1..Len(v) |->
        IF k > i * size /\ k <= i * size + Len(result) THEN result[k - i * size] ELSE v[k]]

\* a variant that keeps the last exception instead of the first
set_value_last(v, succ, i, size, ok, result) ==
    IF ok /\ succ THEN place_chunk(v, i, size, result)
    ELSE IF ~ok THEN result
    ELSE v

\* MapResult._set: the new _value
set_value(v, succ, i, size, ok, result) ==
    IF ok /\ succ THEN place_chunk(v, i, size, result)
    ELSE IF ~ok /\ succ THEN result
    ELSE v

\* MapResult._set: the new _success
set_success(succ, ok) == succ /\ ok

\* a variant that wakes the caller at the first failure
ready_on_failure(left, succ) == left = 0 \/ ~succ

\* MapResult._set sets the event, which map's get() waits for, once
\* _number_left is 0
ready(left, succ) == left = 0

\* a variant that runs the items of a chunk past a failure
chunk_never_ends(pos, len, ok) == pos = len

\* mapstar: list(map(func, chunk)) ends at the last item or at the first raise
chunk_ends(pos, len, ok) == pos = len \/ ~ok

Init ==
    /\ pc = "get_main_date"
    /\ num_processes \in 1..MaxPool
    /\ current_date = <<>>
    /\ landing = <<>>
    /\ pool = "none"
    /\ chunksize = 0
    /\ taskqueue = <<>>
    /\ running = {}
    /\ chunkPos = <<>>
    /\ chunkAcc = <<>>
    /\ number_left = 0
    /\ success = TRUE
    /\ value = <<>>
    /\ results = <<>>
    /\ raised = <<>>
    /\ printed = <<>>
    /\ taskState = <<>>
    /\ fetchLog = <<>>
    /\ failLog = <<>>
    /\ fnIn = <<>>
    /\ fnOut = <<>>

\* line 96
GetMainDate ==
    /\ pc = "get_main_date"
    /\ \E response \in LandingResponses :
        LET r == get_main_date(response)
        IN  /\ landing' = Append(landing, response)
            /\ IF r.ok
               THEN /\ current_date' = r.ret
                    /\ pc' = "create_pool"
                    /\ UNCHANGED raised
               ELSE /\ raised' = r.exc
                    /\ pc' = "failed"
                    /\ UNCHANGED current_date
    /\ UNCHANGED <<num_processes, pool, chunksize, taskqueue, running, chunkPos,
                   chunkAcc, number_left, success, value, results, printed,
                   taskState, fetchLog, failLog, fnIn, fnOut>>

\* line 99: Pool(num_processes).__enter__
CreatePool ==
    /\ pc = "create_pool"
    /\ pool' = "running"
    /\ pc' = "map"
    /\ UNCHANGED <<num_processes, current_date, landing, chunksize, taskqueue,
                   running, chunkPos, chunkAcc, number_left, success, value,
                   results, raised, printed, taskState, fetchLog, failLog, fnIn,
                   fnOut>>

\* lines 100-101: pool.map submits every chunk, then waits
MapSubmit ==
    /\ pc = "map"
    /\ LET size == ChunkSize(NumWeeks, num_processes)
           n == NumChunks(NumWeeks, size)
       IN  /\ chunksize' = size
           /\ taskqueue' = [k \in 1..n |-> k - 1]
           /\ number_left' = n
           /\ chunkPos' = [i \in 0..(n - 1) |-> 0]
           /\ chunkAcc' = [i \in 0..(n - 1) |-> <<>>]
    /\ success' = TRUE
    /\ value' = [k \in 1..NumWeeks |-> NoneSlot]
    /\ taskState' = [w \in 0..(NumWeeks - 1) |-> "submitted"]
    /\ fetchLog' = [w \in 0..(NumWeeks - 1) |-> <<>>]
    /\ pc' = "map_wait"
    /\ UNCHANGED <<num_processes, current_date, landing, pool, running, results,
                   raised, printed, failLog, fnIn, fnOut>>

\* an idle worker takes the next chunk from the pool's queue and calls
\* scrape_best_seller on its first week, which sends its request (lines 49-58)
WorkerGet ==
    /\ pool = "running"
    /\ taskqueue # <<>>
    /\ Cardinality(running) < num_processes
    /\ LET i == Head(taskqueue)
           week == ChunkWeeks(i, chunksize)[1]
       IN  /\ running' = running \cup {i}
           /\ taskqueue' = Tail(taskqueue)
           /\ chunkPos' = [chunkPos EXCEPT ![i] = 1]
           /\ taskState' = [taskState EXCEPT ![week] = "running"]
           /\ fetchLog' = [fetchLog EXCEPT ![week] = <<build_locator(current_date, week)>>]
    /\ UNCHANGED <<pc, num_processes, current_date, landing, pool, chunksize,
                   chunkAcc, number_left, success, value, results, raised,
                   printed, failLog, fnIn, fnOut>>

\* lines 58-91: the response arrives and scrape_best_seller returns or raises.
\* At the end of the chunk the worker hands the chunk's result to
\* MapResult._set; otherwise it calls scrape_best_seller on the next week.
TaskReturn(i) ==
    /\ pool = "running"
    /\ i \in running
    /\ LET chunk == ChunkWeeks(i, chunksize)
           week == chunk[chunkPos[i]]
       IN  /\ taskState[week] = "running"
           /\ \E response \in PagesFor(fetchLog[week][1]) :
                LET r == scrape_best_seller(week, response)
                    acc == IF r.ok THEN Append(chunkAcc[i], r.ret) ELSE chunkAcc[i]
                    state == IF r.ok THEN "returned" ELSE "raised"
                IN  /\ chunkAcc' = [chunkAcc EXCEPT ![i] = acc]
                    /\ failLog' = IF r.ok THEN failLog ELSE Append(failLog, r.exc)
                    /\ IF chunk_ends(chunkPos[i], Len(chunk), r.ok)
                       THEN /\ running' = running \ {i}
                            /\ number_left' = number_left - 1
                            /\ value' = set_value(value, success, i, chunksize, r.ok,
                                                  IF r.ok THEN acc ELSE r.exc)
                            /\ success' = set_success(success, r.ok)
                            /\ taskState' = [taskState EXCEPT ![week] = state]
                            /\ fetchLog' = [fetchLog EXCEPT ![week] = Append(@, response)]
                            /\ UNCHANGED chunkPos
                       ELSE LET next == chunk[chunkPos[i] + 1]
                            IN  /\ chunkPos' = [chunkPos EXCEPT ![i] = @ + 1]
                                /\ taskState' = [taskState EXCEPT ![week] = state,
                                                                  ![next] = "running"]
                                /\ fetchLog' = [fetchLog EXCEPT
                                        ![week] = Append(@, response),
                                        ![next] = <<build_locator(current_date, next)>>]
                                /\ UNCHANGED <<running, number_left, value, success>>
    /\ UNCHANGED <<pc, num_processes, current_date, landing, pool, chunksize,
                   taskqueue, results, raised, printed, fnIn, fnOut>>

\* line 101: map's get() wakes up and returns the list or raises the exception
MapGet ==
    /\ pc = "map_wait"
    /\ ready(number_left, success)
    /\ IF success
       THEN /\ results' = value
            /\ pc' = "print"
            /\ UNCHANGED raised
       ELSE /\ raised' = value
            /\ pc' = "exit_raising"
            /\ UNCHANGED results
    /\ UNCHANGED <<num_processes, current_date, landing, pool, chunksize, taskqueue,
                   running, chunkPos, chunkAcc, number_left, success, value,
                   printed, taskState, fetchLog, failLog, fnIn, fnOut>>

\* lines 102-104
PrintResults ==
    /\ pc = "print"
    /\ printed' = <<results, "elapsed">>
    /\ pc' = "exit"
    /\ UNCHANGED <<num_processes, current_date, landing, pool, chunksize, taskqueue,
                   running, chunkPos, chunkAcc, number_left, success, value,
                   results, raised, taskState, fetchLog, failLog, fnIn, fnOut>>

\* line 99: Pool.__exit__ terminates the pool, on return and on exception
PoolExit ==
    /\ pc \in {"exit", "exit_raising"}
    /\ pool' = "terminated"
    /\ pc' = IF pc = "exit" THEN "done" ELSE "failed"
    /\ UNCHANGED <<num_processes, current_date, landing, chunksize, taskqueue,
                   running, chunkPos, chunkAcc, number_left, success, value,
                   results, raised, printed, taskState, fetchLog, failLog, fnIn,
                   fnOut>>

Next ==
    \/ GetMainDate
    \/ CreatePool
    \/ MapSubmit
    \/ WorkerGet
    \/ \E i \in running : TaskReturn(i)
    \/ MapGet
    \/ PrintResults
    \/ PoolExit

Spec == Init /\ [][Next]_vars

\* the processes are scheduled and every request ends (timeout=5, lines 20 and 58)
FairSpec == Spec /\ WF_vars(Next)

(***************************************************************************)
(* Properties.                                                             *)
(***************************************************************************)
Returned == pc \in {"print", "exit", "done"}

Ended == pc \in {"done", "failed"}

\* C1: when pool.map returns, the list has one element per submitted offset,
\* in the order of the offsets, whatever the pool size and the order in which
\* the chunks completed: element k is tagged with offset weeks[k] and holds
\* the extraction of the page fetched from the locator of (reference date,
\* weeks[k]); what is printed is that list.
C1_ResultsInInputOrder ==
    Returned =>
        /\ Len(results) = NumWeeks
        /\ \A k \in 1..NumWeeks :
            LET w == weeks[k]
                page == fetchLog[w][2]
            IN  /\ fetchLog[w][1] = build_locator(current_date, w)
                /\ page.status_code = 200
                /\ results[k].week = w
                /\ results[k].data = parse(w, page.content).ret.data
                /\ page.content = GoodPage(fetchLog[w][1]) =>
                      results[k].data[1].books[1].title =
                          strftime(date_minus_days(current_date, 7 * w))
        /\ printed # <<>> => printed[1] = results

C1_Witness ==
    /\ pc = "done"
    /\ num_processes = MaxPool
    /\ Len(printed[1]) = NumWeeks
    /\ \A k \in 1..NumWeeks : printed[1][k].data # <<>>

\* C2: once a task has failed, no list of results is ever returned or printed,
\* not even a partial one, and the run can only end by raising the exception
\* of the first task that failed.
C2_FailFast ==
    failLog # <<>> =>
        /\ results = <<>>
        /\ printed = <<>>
        /\ pc \in {"map_wait", "exit_raising", "failed"}
        /\ pc \in {"exit_raising", "failed"} => raised = Head(failLog)

C2_Witness ==
    /\ pc = "failed"
    /\ Len(failLog) >= 2
    /\ failLog[1] # failLog[2]

\* C3 as stated: as soon as a task has failed, the caller waiting in pool.map
\* gets the error, without waiting for the tasks still queued or running.
C3_ImmediateTermination ==
    (pc = "map_wait" /\ failLog # <<>>) => ENABLED MapGet

\* C3 amended: the error of a task reaches the caller unchanged, but only
\* after every chunk has completed: pool.map raises once no chunk is queued
\* or running.  An error of get_main_date ends the run before any pool or
\* task exists.
C3_RaisedAfterAllChunks ==
    /\ (pc = "exit_raising" \/ (pc = "failed" /\ pool # "none")) =>
            /\ taskqueue = <<>>
            /\ running = {}
            /\ number_left = 0
            /\ \A w \in DOMAIN taskState : taskState[w] # "running"
            /\ raised = Head(failLog)
    /\ (pc = "failed" /\ pool = "none") =>
            /\ raised = get_main_date(landing[1]).exc
            /\ taskState = <<>>

C3_Witness ==
    /\ pc = "exit_raising"
    /\ num_processes > 1
    /\ taskState[0] = "raised"
    /\ \E w \in DOMAIN taskState : taskState[w] = "returned"

\* week offsets placed before w in the chunk of w
EarlierInChunk(w) ==
    {v \in DOMAIN taskState : v < w /\ (v \div chunksize) = (w \div chunksize)}

\* C4 as stated (safety part): the pool is never terminated while a submitted
\* task is still running or not yet started.
C4_EveryTaskReturned ==
    pool = "terminated" => \A w \in DOMAIN taskState : taskState[w] \in {"returned", "raised"}

TornDownSafely ==
    pool = "terminated" =>
        /\ taskqueue = <<>>
        /\ running = {}
        /\ \A w \in DOMAIN taskState :
            /\ taskState[w] # "running"
            /\ taskState[w] = "submitted" =>
                    \E v \in EarlierInChunk(w) : taskState[v] = "raised"

\* C4 amended: every run that creates the pool tears it down, when pool.map
\* returned and when it raised (a run whose get_main_date fails creates no
\* pool); the pool is terminated only once no chunk is queued or running; a
\* task not yet started at that point is one that follows a failed task in
\* its own chunk.
C4_TornDownAfterAllChunks ==
    /\ []TornDownSafely
    /\ (pool = "running") ~> (pool = "terminated")

C4_Witness ==
    /\ pool = "terminated"
    /\ pc = "failed"
    /\ \E w \in DOMAIN taskState : taskState[w] = "submitted"

\* C9 as stated: in every run each submitted offset has its task started and
\* run to its own completion or failure.
C9_EveryTaskStarted ==
    (Ended /\ taskState # <<>>) =>
        \A w \in DOMAIN taskState : taskState[w] # "submitted"

\* C9 amended: all chunks are submitted at once and no chunk is cancelled:
\* when the run ends every chunk has been started and has run to its end or to
\* its first failing offset.  The offsets that follow a failed offset inside
\* the same chunk are never started, and those are the only ones.
C9_OnlyChunkTailSkipped ==
    (Ended /\ taskState # <<>>) =>
        \A w \in DOMAIN taskState :
            /\ taskState[w] \in {"submitted", "returned", "raised"}
            /\ taskState[w] = "submitted" <=>
                    \E v \in EarlierInChunk(w) : taskState[v] = "raised"

C9_Witness ==
    /\ Ended
    /\ num_processes = 1
    /\ taskState # <<>>
    /\ taskState[0] = "raised"
    /\ taskState[1] = "submitted"
    /\ taskState[2] = "raised"
    /\ taskState[NumWeeks - 1] = "returned"

(***************************************************************************)
(* The calendar, day by day.                                               *)
(***************************************************************************)
GregorianLeap(y) == (y % 4 = 0 /\ y % 100 # 0) \/ y % 400 = 0

MonthLength(y, m) ==
    IF m \in {4, 6, 9, 11} THEN 30
    ELSE IF m = 2 THEN (IF GregorianLeap(y) THEN 29 ELSE 28)
    ELSE 31

PrevDay(date) ==
    IF date[3] > 1 THEN <<date[1], date[2], date[3] - 1>>
    ELSE IF date[2] > 1 THEN <<date[1], date[2] - 1, MonthLength(date[1], date[2] - 1)>>
    ELSE <<date[1] - 1, 12, 31>>

RECURSIVE DaysBack(_, _)
DaysBack(date, n) == IF n = 0 THEN date ELSE DaysBack(PrevDay(date), n - 1)

DigitValue(c) == CHOOSE n \in 0..9 : DigitChars[n + 1] = c

RECURSIVE NumberOf(_)
NumberOf(s) ==
    IF s = <<>> THEN 0 ELSE 10 * NumberOf(SubSeq(s, 1, Len(s) - 1)) + DigitValue(s[Len(s)])

\* C5: the locator built for (reference date, k) is the base path, then the
\* date that lies 7*k calendar days before the reference date written as
\* YYYY/MM/DD (four, two and two digits), then a slash, across month, year
\* and leap-day boundaries.
C5_Locator ==
    fnOut # <<>> /\ "date" \in DOMAIN fnIn =>
        LET url == fnOut[1]
            d == DaysBack(fnIn.date, 7 * fnIn.week)
        IN  /\ Len(url) = 12
            /\ url[1] = BaseUrl
            /\ url[6] = "/" /\ url[9] = "/" /\ url[12] = "/"
            /\ \A k \in {2, 3, 4, 5, 7, 8, 10, 11} : \E n \in 0..9 : DigitChars[n + 1] = url[k]
            /\ NumberOf(SubSeq(url, 2, 5)) = d[1]
            /\ NumberOf(SubSeq(url, 7, 8)) = d[2]
            /\ NumberOf(SubSeq(url, 10, 11)) = d[3]

C5_Witness ==
    /\ fnOut # <<>>
    /\ "date" \in DOMAIN fnIn
    /\ fnIn.date = <<2001, 1, 3>>
    /\ fnIn.week = 1
    /\ fnOut[1] = <<BaseUrl, "2", "0", "0", "0", "/", "1", "2", "/", "2", "7", "/">>

(***************************************************************************)
(* Documents, read independently of the extraction.                        *)
(***************************************************************************)
CompleteItem(b) == b.h3.present /\ b.p.present /\ b.img.present

CompleteCategory(c) ==
    c.h2.present /\ \A j \in 1..Len(c.books) : CompleteItem(c.books[j])

WellFormed(soup) ==
    /\ soup.scoped # <<>>
    /\ \A i \in 1..Len(soup.scoped[1]) : CompleteCategory(soup.scoped[1][i])

TitleOf(b) == IF b.h3.text = <<"A">> THEN <<"A">> ELSE <<"B">>

DescriptionOf(b) == IF b.p.text = <<"x">> THEN <<"x">> ELSE <<"y">>

Scraped == fnOut # <<>> /\ "response" \in DOMAIN fnIn

\* C6: on a well-formed document the extraction yields one category record
\* per category block, in document order, each with one item record per item
\* block of that category, in document order, and the positions inside every
\* category are 1, 2, ..., n.
C6_DocumentOrder ==
    (Scraped /\ fnIn.response.status_code = 200 /\ WellFormed(fnIn.response.content)) =>
        LET out == fnOut[1]
            container == fnIn.response.content.scoped[1]
        IN  /\ out.ok
            /\ out.ret.week = fnIn.week
            /\ Len(out.ret.data) = Len(container)
            /\ \A i \in 1..Len(container) :
                LET rec == out.ret.data[i]
                    blocks == container[i].books
                IN  /\ rec.category = container[i].h2.text
                    /\ Len(rec.books) = Len(blocks)
                    /\ \A j \in 1..Len(blocks) :
                        /\ rec.books[j].position = j
                        /\ rec.books[j].title = TitleOf(blocks[j])
                        /\ rec.books[j].description = DescriptionOf(blocks[j])
                        /\ rec.books[j].image_url = blocks[j].img.text

C6_Witness ==
    /\ Scraped
    /\ fnIn.response.status_code = 200
    /\ fnIn.response.content.scoped =
            << << [h2 |-> El(<<" ", "N">>), books |-> <<BookB, BookB>>],
                  [h2 |-> El(<<"F">>), books |-> <<>>] >> >>
    /\ fnOut[1].ok
    /\ fnOut[1].ret.data[1].books[2].position = 2

\* C7: a document without the scoped container, or with a category block
\* without heading, or with an item block without title, description or
\* image, makes the call raise and return nothing, wherever the defective
\* block stands.
C7_DefectRaises ==
    (Scraped /\ fnIn.response.status_code = 200 /\ ~WellFormed(fnIn.response.content)) =>
        /\ ~fnOut[1].ok
        /\ fnOut[1].ret = <<>>
        /\ fnOut[1].exc \in {<<"IndexError">>, <<"AttributeError">>, <<"TypeError">>}

C7_Witness ==
    /\ Scraped
    /\ fnIn.response.status_code = 200
    /\ fnIn.response.content.scoped =
            << << [h2 |-> El(<<"F">>), books |-> <<BookA>>],
                  [h2 |-> El(<<"F">>), books |-> <<NoImage>>] >> >>
    /\ ~fnOut[1].ok

DateTextMatches(text) ==
    \E m \in 1..12 : MonthNames[m] = text[1] /\ text[2] \in 1..MonthLength(text[3], m)

LandingFails(response) ==
    \/ response.status_code # 200
    \/ ~response.content.time.present
    \/ ~DateTextMatches(response.content.time.text)

\* C10: a run requests the landing page once, before the pool exists and
\* before any task is submitted; when that request fails (status not 200, no
\* time element, or a text that is not a date) the run is over: no second
\* request, no pool, no snapshot request, nothing printed.
C10_DateResolvedFirst ==
    /\ Len(landing) <= 1
    /\ (pool # "none" \/ taskState # <<>> \/ fetchLog # <<>>) =>
            /\ Len(landing) = 1
            /\ ~LandingFails(landing[1])
            /\ current_date # <<>>
    /\ (landing # <<>> /\ LandingFails(landing[1])) =>
            /\ pc = "failed"
            /\ pool = "none"
            /\ taskState = <<>>
            /\ fetchLog = <<>>
            /\ printed = <<>>

C10_Witness ==
    /\ pc = "failed"
    /\ Len(landing) = 1
    /\ landing[1].status_code = 200
    /\ landing[1].content.time.present
    /\ pool = "none"

====
